---------------------------- MODULE Spec2Model ----------------------------
(***************************************************************************)
(* A model of WritePoetry.ipynb: the 90/10 split of the encoded corpus,    *)
(* get_batch, the causal mask of MHA.forward, the training loop and the    *)
(* generation loop, in the order of the notebook's cells.                  *)
(*                                                                         *)
(* Tensors of token ids are sequences of integers; Python's 0-based        *)
(* indices are kept in the operators and turned into the 1-based ones of   *)
(* TLA+ only inside PySlice.  Floating-point tensors whose values do not   *)
(* influence control flow (logits, losses, weights) are represented by     *)
(* what determines them: the parameter version, the window length and the  *)
(* dropout flag.                                                           *)
(***************************************************************************)
EXTENDS Integers, Sequences, FiniteSets, TLC

VARIABLES
    pc,          \* position in the notebook
    err,         \* the exception that stopped the run, or "none"
    data,        \* data = torch.tensor(enc.encode(text))
    n,           \* n = int(0.9*len(data))
    train_data,  \* data[:n]
    val_data,    \* data[n:]
    split,       \* the argument of the get_batch call under study
    x,           \* get_batch's inputs, a sequence of rows
    y,           \* get_batch's targets, a sequence of rows
    it,          \* how many values the current range(...) iterator has handed out
    step,        \* the loop variable `step` (shared by both loops)
    B,           \* B, T = x.shape
    T,
    mode,        \* model.training: "Training" or "Evaluating"
    params,      \* number of optimizer updates applied to the parameters
    grads,       \* number of backward passes accumulated in .grad since the last reset
    y_hat,       \* the last forward pass: window, dropout flag, parameter version
    seed,        \* enc.encode(<seed text>)
    seq,         \* the growing sequence of the generation loop
    context,     \* seq[:,-block_size:]
    next_word,   \* torch.multinomial(p, 1)
    tlen,        \* x.shape[1] inside MHA.forward
    mask,        \* the tensor bound to `mask` inside MHA.forward
    tmp          \* the value of the subexpression MHA.forward evaluated last

vars == <<pc, err, data, n, train_data, val_data, split, x, y, it, step, B, T,
          mode, params, grads, y_hat, seed, seq, context, next_word, tlen, mask, tmp>>

dataVars  == <<data, n, train_data, val_data>>
batchVars == <<split, x, y>>
trainVars == <<it, step, B, T, mode, params, grads, y_hat>>
genVars   == <<seed, seq, context, next_word>>
maskVars  == <<tlen, mask, tmp>>

---------------------------------------------------------------------------
(* Program constants *)

block_size == 32

train_steps == 1000

eval_interval == 200

(* Bounds of the model *)

\* rows per batch (16 in the notebook)
batch_size == 1

\* iterations of the generation loop (200 in the notebook)
num_steps == 4

\* longest encoded seed
MaxSeed == 34

\* corpora of 0..SmallCorpus ids, and one of LargeCorpus ids
SmallCorpus == 40

LargeCorpus == 331

\* ids torch.multinomial may draw
SampleIds == {0, 1}

---------------------------------------------------------------------------
(* Python and torch primitives *)

Min(a, b) == IF a <= b THEN a ELSE b

Max(a, b) == IF a >= b THEN a ELSE b

\* s[lo:hi] with Python's clamping and negative indices; lo, hi are 0-based.
PySlice(s, lo, hi) ==
    LET len == Len(s)
        a == IF lo < 0 THEN Max(len + lo, 0) ELSE Min(lo, len)
        b == IF hi < 0 THEN Max(len + hi, 0) ELSE Min(hi, len)
    IN  IF a >= b THEN << >> ELSE SubSeq(s, a + 1, b)

\* An encoded corpus of len ids; the id at 0-based position i is i, so a
\* window determines the offset it was cut at.
Corpus(len) == [i \in 1..len |-> i - 1]

CorpusLens == (0..SmallCorpus) \cup {LargeCorpus}

\* int(0.9*len(data)): for lengths far below 2^53 the double product
\* truncates to floor(9*len/10).
SplitIndex(d) == (9 * Len(d)) \div 10

TrainSlice(d, k) == PySlice(d, 0, k)

\* variant: the validation half starts one id late
ValSliceBug(d, k) == PySlice(d, k + 1, Len(d))
ValSlice(d, k) == PySlice(d, k, Len(d))

---------------------------------------------------------------------------
(* get_batch *)

\* data = train_data if split == 'train' else val_data
SelectData(s) == IF s = "train" THEN train_data ELSE val_data

\* the exclusive upper bound handed to torch.randint
\* variant: the last offset is one too far
RandintHighBug(d) == Len(d) - block_size + 1
RandintHigh(d) == Len(d) - block_size

\* torch.randint(low, high, ...) raises RuntimeError unless low < high
RandintRaises(low, high) == low >= high

InputRow(d, i) == PySlice(d, i, i + block_size)

\* variant: the targets are not shifted
TargetRowBug(d, i) == PySlice(d, i, i + block_size)
TargetRow(d, i) == PySlice(d, i + 1, i + block_size + 1)

\* torch.stack raises RuntimeError unless all rows have the same size
StackRaises(rows) == \E r1, r2 \in 1..Len(rows) : Len(rows[r1]) # Len(rows[r2])

---------------------------------------------------------------------------
Init ==
    /\ pc = "split"
    /\ err = "none"
    /\ data \in {Corpus(len) : len \in CorpusLens}
    /\ n = 0
    /\ train_data = << >>
    /\ val_data = << >>
    /\ split = "none"
    /\ x = << >>
    /\ y = << >>
    /\ it = 0
    /\ step = 0
    /\ B = 0
    /\ T = 0
    /\ mode = "Training"
    /\ params = 0
    /\ grads = 0
    /\ y_hat = [window |-> 0, dropout |-> FALSE, version |-> 0]
    /\ seed = << >>
    /\ seq = << >>
    /\ context = << >>
    /\ next_word = 0
    /\ tlen = 0
    /\ mask = << >>
    /\ tmp = << >>

\* n = int(0.9*len(data)); train_data = data[:n]; val_data = data[n:]
SplitData ==
    /\ pc = "split"
    /\ n' = SplitIndex(data)
    /\ train_data' = TrainSlice(data, n')
    /\ val_data' = ValSlice(data, n')
    /\ pc' = "train_head"
    /\ UNCHANGED <<err, data, batchVars, trainVars, genVars, maskVars>>

\* One call get_batch(s) made once the split exists.
GetBatch(s) ==
    /\ pc = "train_head"
    /\ split' = s
    /\ LET d == SelectData(s)
           high == RandintHigh(d)
       IN  IF RandintRaises(0, high)
           THEN /\ err' = "RuntimeError"
                /\ pc' = "raised"
                /\ UNCHANGED <<x, y>>
           ELSE \E ix \in [1..batch_size -> 0..(high - 1)] :
                    LET xs == [r \in 1..batch_size |-> InputRow(d, ix[r])]
                        ys == [r \in 1..batch_size |-> TargetRow(d, ix[r])]
                    IN  IF StackRaises(xs) \/ StackRaises(ys)
                        THEN /\ err' = "RuntimeError"
                             /\ pc' = "raised"
                             /\ UNCHANGED <<x, y>>
                        ELSE /\ x' = xs
                             /\ y' = ys
                             /\ pc' = "returned"
                             /\ UNCHANGED err
    /\ UNCHANGED <<dataVars, trainVars, genVars, maskVars>>

GetBatchTrain == GetBatch("train")

GetBatchVal == GetBatch("val")

NextData == SplitData \/ GetBatchTrain \/ GetBatchVal

SpecData == Init /\ [][NextData]_vars

---------------------------------------------------------------------------
(* MHA.forward: the additive attention mask.  A T x T tensor is a function *)
(* of the row i and the column j, both in 0..T-1; a bool tensor holds      *)
(* TRUE/FALSE, a float tensor holds "1.0", "0.0" or "-inf".                *)

Idx(t) == 0..(t - 1)

\* torch.ones(t, t)
Ones(t) == [i \in Idx(t) |-> [j \in Idx(t) |-> "1.0"]]

\* torch.triu(M): keeps the entries on and above the diagonal
Triu(M) == [i \in DOMAIN M |-> [j \in DOMAIN M |-> IF j >= i THEN M[i][j] ELSE "0.0"]]

\* M == 1 on a float tensor
FloatEqOne(M) == [i \in DOMAIN M |-> [j \in DOMAIN M |-> M[i][j] = "1.0"]]

\* M.transpose(0, 1)
\* variant: the transposition is left out
TransposeBug(M) == M
Transpose(M) == [i \in DOMAIN M |-> [j \in DOMAIN M |-> M[j][i]]]

\* M.float() on a bool tensor
ToFloat(M) == [i \in DOMAIN M |-> [j \in DOMAIN M |-> IF M[i][j] THEN "1.0" ELSE "0.0"]]

\* M == k on a bool tensor, k being 0 or 1
BoolEq(M, k) == [i \in DOMAIN M |-> [j \in DOMAIN M |-> IF k = 1 THEN M[i][j] ELSE ~M[i][j]]]

\* M.masked_fill(C, v)
MaskedFill(M, C, v) == [i \in DOMAIN M |-> [j \in DOMAIN M |-> IF C[i][j] THEN v ELSE M[i][j]]]

\* The keys a query can give weight to once softmax has seen scores + M:
\* exp(-inf) is 0 and every finite score has positive weight.
AttnSupport(M) == [i \in DOMAIN M |-> {j \in DOMAIN M : M[i][j] # "-inf"}]

InitMask ==
    /\ pc = "mha_forward"
    /\ err = "none"
    /\ data = << >>
    /\ n = 0
    /\ train_data = << >>
    /\ val_data = << >>
    /\ split = "none"
    /\ x = << >>
    /\ y = << >>
    /\ it = 0
    /\ step = 0
    /\ B = 0
    /\ T = 0
    /\ mode = "Training"
    /\ params = 0
    /\ grads = 0
    /\ y_hat = [window |-> 0, dropout |-> FALSE, version |-> 0]
    /\ seed = << >>
    /\ seq = << >>
    /\ context = << >>
    /\ next_word = 0
    /\ tlen \in 1..block_size
    /\ mask = << >>
    /\ tmp = << >>

maskFrame == UNCHANGED <<err, dataVars, batchVars, trainVars, genVars, tlen>>

\* torch.ones(x.shape[1], x.shape[1])
MaskOnes ==
    /\ pc = "mha_forward"
    /\ tmp' = Ones(tlen)
    /\ pc' = "mask_triu"
    /\ UNCHANGED mask
    /\ maskFrame

\* torch.triu(...)
MaskTriu ==
    /\ pc = "mask_triu"
    /\ tmp' = Triu(tmp)
    /\ pc' = "mask_eq"
    /\ UNCHANGED mask
    /\ maskFrame

\* (...) == 1
MaskEq ==
    /\ pc = "mask_eq"
    /\ tmp' = FloatEqOne(tmp)
    /\ pc' = "mask_transpose"
    /\ UNCHANGED mask
    /\ maskFrame

\* mask = (...).transpose(0, 1)
MaskTranspose ==
    /\ pc = "mask_transpose"
    /\ tmp' = Transpose(tmp)
    /\ mask' = tmp'
    /\ pc' = "mask_float"
    /\ maskFrame

\* mask.float()
MaskFloat ==
    /\ pc = "mask_float"
    /\ tmp' = ToFloat(mask)
    /\ pc' = "mask_fill_inf"
    /\ UNCHANGED mask
    /\ maskFrame

\* .masked_fill(mask == 0, float('-inf')); `mask` is still the bool tensor
MaskFillInf ==
    /\ pc = "mask_fill_inf"
    /\ tmp' = MaskedFill(tmp, BoolEq(mask, 0), "-inf")
    /\ pc' = "mask_fill_zero"
    /\ UNCHANGED mask
    /\ maskFrame

\* mask = (...).masked_fill(mask == 1, float(0.0))
MaskFillZero ==
    /\ pc = "mask_fill_zero"
    /\ tmp' = MaskedFill(tmp, BoolEq(mask, 1), "0.0")
    /\ mask' = tmp'
    /\ pc' = "mha_attn"
    /\ maskFrame

\* self.attn(x, x, x, attn_mask=mask): row i of the mask is query i
MaskAttend ==
    /\ pc = "mha_attn"
    /\ tmp' = AttnSupport(mask)
    /\ pc' = "mha_done"
    /\ UNCHANGED mask
    /\ maskFrame

NextMask ==
    \/ MaskOnes
    \/ MaskTriu
    \/ MaskEq
    \/ MaskTranspose
    \/ MaskFloat
    \/ MaskFillInf
    \/ MaskFillZero
    \/ MaskAttend

SpecMask == InitMask /\ [][NextMask]_vars

---------------------------------------------------------------------------
(* The training loop and the generation loop.  The loops read a batch only *)
(* through its shape, so here get_batch is its outcome (an exception or a  *)
(* batch of batch_size rows); SpecData explores the rows themselves.       *)

\* self.pos_emb(torch.arange(x.shape[1])): the table has block_size rows,
\* a longer window raises IndexError
ForwardRaises(w) == w > block_size

\* model(x): the logits are determined by the window, by whether dropout is
\* active (model.training) and by the parameters
ForwardOut(w) == [window |-> w, dropout |-> (mode = "Training"), version |-> params]

\* (step+1) % 200 == 0
\* variant: the test reads step instead of step+1
EvalDueBug(s) == s % eval_interval = 0
EvalDue(s) == (s + 1) % eval_interval = 0

\* optim.zero_grad()
\* variant: the gradients are never reset
ZeroGradBug(g) == g
ZeroGradOp(g) == 0

\* model.train()
ModelTrainMode == "Training"

\* model.eval()
ModelEvalMode == "Evaluating"

\* enc.encode(<seed text>): k ids, all different and none of them in SampleIds
SeedIds(k) == [i \in 1..k |-> 100 + i]

\* seq[:,-block_size:]
\* variant: the whole sequence is the context
ContextBug(s) == PySlice(s, 0, Len(s))
Context(s) == PySlice(s, 0 - block_size, Len(s))

\* torch.cat([seq, next_word], dim=-1)
\* variant: the new id is put in front
CatBug(s, w) == <<w>> \o s
Cat(s, w) == s \o <<w>>

Raise(e) ==
    /\ err' = e
    /\ pc' = "raised"

\* for step in range(1000):
TrainHead ==
    /\ pc = "train_head"
    /\ IF it < train_steps
       THEN /\ step' = it
            /\ it' = it + 1
            /\ pc' = "train_batch"
       ELSE /\ pc' = "gen_init"
            /\ UNCHANGED <<step, it>>
    /\ UNCHANGED <<err, dataVars, batchVars, B, T, mode, params, grads, y_hat,
                   genVars, maskVars>>

\* x, y = get_batch('train'); B, T = x.shape
TrainBatch ==
    /\ pc = "train_batch"
    /\ IF RandintRaises(0, RandintHigh(train_data))
       THEN /\ Raise("RuntimeError")
            /\ UNCHANGED <<B, T>>
       ELSE /\ B' = batch_size
            /\ T' = Len(InputRow(train_data, 0))
            /\ pc' = "train_forward"
            /\ UNCHANGED err
    /\ UNCHANGED <<dataVars, batchVars, it, step, mode, params, grads, y_hat,
                   genVars, maskVars>>

\* y_hat = model(x); train_loss = lossfcn(...)
TrainForward ==
    /\ pc = "train_forward"
    /\ IF ForwardRaises(T)
       THEN /\ Raise("IndexError")
            /\ UNCHANGED y_hat
       ELSE /\ y_hat' = ForwardOut(T)
            /\ pc' = "backward"
            /\ UNCHANGED err
    /\ UNCHANGED <<dataVars, batchVars, it, step, B, T, mode, params, grads,
                   genVars, maskVars>>

\* train_loss.backward()
Backward ==
    /\ pc = "backward"
    /\ grads' = grads + 1
    /\ pc' = "optim_step"
    /\ UNCHANGED <<err, dataVars, batchVars, it, step, B, T, mode, params, y_hat,
                   genVars, maskVars>>

\* optim.step()
OptimStep ==
    /\ pc = "optim_step"
    /\ params' = params + 1
    /\ pc' = "zero_grad"
    /\ UNCHANGED <<err, dataVars, batchVars, it, step, B, T, mode, grads, y_hat,
                   genVars, maskVars>>

\* optim.zero_grad()
ZeroGrad ==
    /\ pc = "zero_grad"
    /\ grads' = ZeroGradOp(grads)
    /\ pc' = "eval_check"
    /\ UNCHANGED <<err, dataVars, batchVars, it, step, B, T, mode, params, y_hat,
                   genVars, maskVars>>

\* if (step+1) % 200 == 0:
EvalCheck ==
    /\ pc = "eval_check"
    /\ pc' = IF EvalDue(step) THEN "model_eval" ELSE "train_head"
    /\ UNCHANGED <<err, dataVars, batchVars, trainVars, genVars, maskVars>>

\* model.eval()
ModelEval ==
    /\ pc = "model_eval"
    /\ mode' = ModelEvalMode
    /\ pc' = "val_batch"
    /\ UNCHANGED <<err, dataVars, batchVars, it, step, B, T, params, grads, y_hat,
                   genVars, maskVars>>

\* x, y = get_batch('val')
ValBatch ==
    /\ pc = "val_batch"
    /\ IF RandintRaises(0, RandintHigh(val_data))
       THEN Raise("RuntimeError")
       ELSE /\ pc' = "val_forward"
            /\ UNCHANGED err
    /\ UNCHANGED <<dataVars, batchVars, trainVars, genVars, maskVars>>

\* y_hat = model(x); val_loss = lossfcn(...); print(...)
ValForward ==
    /\ pc = "val_forward"
    /\ IF ForwardRaises(Len(InputRow(val_data, 0)))
       THEN /\ Raise("IndexError")
            /\ UNCHANGED y_hat
       ELSE /\ y_hat' = ForwardOut(Len(InputRow(val_data, 0)))
            /\ pc' = "model_train"
            /\ UNCHANGED err
    /\ UNCHANGED <<dataVars, batchVars, it, step, B, T, mode, params, grads,
                   genVars, maskVars>>

\* model.train()
ModelTrain ==
    /\ pc = "model_train"
    /\ mode' = ModelTrainMode
    /\ pc' = "train_head"
    /\ UNCHANGED <<err, dataVars, batchVars, it, step, B, T, params, grads, y_hat,
                   genVars, maskVars>>

\* seq = torch.tensor(enc.encode(<seed text>)).unsqueeze(0)
GenInit ==
    /\ pc = "gen_init"
    /\ \E k \in 1..MaxSeed :
           /\ seed' = SeedIds(k)
           /\ seq' = seed'
    /\ it' = 0
    /\ pc' = "gen_head"
    /\ UNCHANGED <<err, dataVars, batchVars, step, B, T, mode, params, grads, y_hat,
                   context, next_word, maskVars>>

\* for step in range(200):
GenHead ==
    /\ pc = "gen_head"
    /\ IF it < num_steps
       THEN /\ step' = it
            /\ it' = it + 1
            /\ pc' = "gen_context"
       ELSE /\ pc' = "done"
            /\ UNCHANGED <<step, it>>
    /\ UNCHANGED <<err, dataVars, batchVars, B, T, mode, params, grads, y_hat,
                   genVars, maskVars>>

\* context = seq[:,-block_size:]
GenContext ==
    /\ pc = "gen_context"
    /\ context' = Context(seq)
    /\ pc' = "gen_forward"
    /\ UNCHANGED <<err, dataVars, batchVars, trainVars, seed, seq, next_word, maskVars>>

\* y_hat = model(context)[:,-1]; p = F.softmax(y_hat, dim=-1)
GenForward ==
    /\ pc = "gen_forward"
    /\ IF ForwardRaises(Len(context)) \/ Len(context) = 0
       THEN /\ Raise("IndexError")
            /\ UNCHANGED y_hat
       ELSE /\ y_hat' = ForwardOut(Len(context))
            /\ pc' = "gen_sample"
            /\ UNCHANGED err
    /\ UNCHANGED <<dataVars, batchVars, it, step, B, T, mode, params, grads,
                   genVars, maskVars>>

\* next_word = torch.multinomial(p, 1)
GenSample ==
    /\ pc = "gen_sample"
    /\ \E w \in SampleIds : next_word' = w
    /\ pc' = "gen_cat"
    /\ UNCHANGED <<err, dataVars, batchVars, trainVars, seed, seq, context, maskVars>>

\* seq = torch.cat([seq, next_word], dim=-1)
GenCat ==
    /\ pc = "gen_cat"
    /\ seq' = Cat(seq, next_word)
    /\ pc' = "gen_head"
    /\ UNCHANGED <<err, dataVars, batchVars, trainVars, seed, context, next_word, maskVars>>

Next ==
    \/ SplitData
    \/ TrainHead
    \/ TrainBatch
    \/ TrainForward
    \/ Backward
    \/ OptimStep
    \/ ZeroGrad
    \/ EvalCheck
    \/ ModelEval
    \/ ValBatch
    \/ ValForward
    \/ ModelTrain
    \/ GenInit
    \/ GenHead
    \/ GenContext
    \/ GenForward
    \/ GenSample
    \/ GenCat

Spec == Init /\ [][Next]_vars

\* The notebook runs on one thread and every statement returns: a cell that
\* can take its next statement does take it.
FairSpec == Spec /\ WF_vars(Next)

---------------------------------------------------------------------------
(* Properties *)

TrainStepPcs == {"train_head", "train_batch", "train_forward", "backward",
                 "optim_step", "zero_grad", "eval_check"}

ValPcs == {"model_eval", "val_batch", "val_forward", "model_train"}

GenPcs == {"gen_head", "gen_context", "gen_forward", "gen_sample", "gen_cat", "done"}

\* C1: for every window length T in 1..block_size the mask handed to the
\* attention is T x T, -inf at every (i, j) with j > i and 0 at every (i, j)
\* with j <= i; so query i can give weight to no key after i and always to
\* key i itself.
C1_CausalMask ==
    /\ pc \in {"mha_attn", "mha_done"} =>
          /\ tlen \in 1..block_size
          /\ DOMAIN mask = 0..(tlen - 1)
          /\ \A i \in 0..(tlen - 1) :
                /\ DOMAIN mask[i] = 0..(tlen - 1)
                /\ \A j \in 0..(tlen - 1) :
                      /\ j > i => mask[i][j] = "-inf"
                      /\ j <= i => mask[i][j] = "0.0"
    /\ pc = "mha_done" =>
          \A i \in 0..(tlen - 1) :
              /\ i \in tmp[i]
              /\ \A j \in tmp[i] : j <= i

C1_Witness ==
    /\ pc = "mha_done"
    /\ tlen = block_size
    /\ mask[0][1] = "-inf"
    /\ mask[block_size - 1][0] = "0.0"

\* C2: a call get_batch(split) on a split longer than block_size returns, and
\* every row r has an offset o with 0 <= o < len(split) - block_size such that
\* inputs[r] = split[o : o+block_size] and targets[r] = split[o+1 : o+block_size+1];
\* both rows have block_size elements of the split named in the call, and
\* targets[r][t] = inputs[r][t+1] for t < block_size - 1.
C2_BatchWindows ==
    (split # "none" /\ Len(SelectData(split)) > block_size) =>
        LET d == SelectData(split) IN
        /\ pc = "returned"
        /\ err = "none"
        /\ Len(x) = batch_size
        /\ Len(y) = batch_size
        /\ \A r \in 1..batch_size :
              /\ Len(x[r]) = block_size
              /\ Len(y[r]) = block_size
              /\ \E o \in 0..(Len(d) - block_size - 1) :
                    \A t \in 0..(block_size - 1) :
                        /\ x[r][t + 1] = d[o + t + 1]
                        /\ y[r][t + 1] = d[o + t + 2]
              /\ \A t \in 0..(block_size - 2) : y[r][t + 1] = x[r][t + 2]

C2_Witness ==
    /\ pc = "returned"
    /\ split = "val"
    /\ Len(val_data) > block_size + 1
    /\ y[1][block_size] = val_data[Len(val_data)]

\* C3: at every generation step the context given to the model is the last
\* min(len(seq), block_size) ids of the sequence, in order; the model is
\* never called on more than block_size ids.
C3_ContextWindow ==
    /\ pc = "gen_forward" =>
          /\ Len(context) = Min(Len(seq), block_size)
          /\ \A k \in 1..Len(context) :
                context[k] = seq[Len(seq) - Len(context) + k]
    /\ pc \in {"gen_sample", "gen_cat"} =>
          /\ y_hat.window = Min(Len(seq), block_size)
          /\ y_hat.window <= block_size
    /\ err # "IndexError"

C3_Witness ==
    /\ pc = "gen_sample"
    /\ Len(seq) > block_size
    /\ Len(seed) < block_size
    /\ Len(context) = block_size
    /\ y_hat.window = block_size

\* C4: the generation loop ends after exactly num_steps iterations with a
\* sequence of len(seed) + num_steps ids; each iteration appends exactly one
\* id at the end and the seed stays the prefix of the sequence.
C4_GenerationLength ==
    /\ [][pc = "gen_cat" =>
            /\ Len(seq') = Len(seq) + 1
            /\ SubSeq(seq', 1, Len(seq)) = seq
            /\ seq'[Len(seq')] = next_word]_vars
    /\ [][seq' # seq => pc \in {"gen_init", "gen_cat"}]_vars
    /\ [](pc \in GenPcs =>
            /\ Len(seq) >= Len(seed)
            /\ SubSeq(seq, 1, Len(seed)) = seed)
    /\ [](pc = "gen_head" => Len(seq) = Len(seed) + it)
    /\ [](pc = "done" => it = num_steps /\ Len(seq) = Len(seed) + num_steps)
    /\ (pc = "gen_head" /\ it = 0) ~> (pc = "done")

C4_Witness ==
    /\ pc = "done"
    /\ it = num_steps
    /\ Len(seed) = 3
    /\ Len(seq) = 3 + num_steps

\* C5: the split gives train = ids[0:n] and val = ids[n:] with
\* n = floor(0.9 * len(ids)); the lengths add up to len(ids), train followed
\* by val is ids, and no position of ids is in both halves.
C5_SplitPartition ==
    pc # "split" =>
        /\ 10 * n <= 9 * Len(data)
        /\ 9 * Len(data) < 10 * (n + 1)
        /\ Len(train_data) = n
        /\ Len(train_data) + Len(val_data) = Len(data)
        /\ \A i \in 1..Len(train_data) : train_data[i] = data[i]
        /\ \A j \in 1..Len(val_data) : val_data[j] = data[n + j]
        /\ train_data \o val_data = data
        /\ {train_data[i] : i \in 1..Len(train_data)}
             \cap {val_data[j] : j \in 1..Len(val_data)} = {}

C5_Witness ==
    /\ pc = "train_head"
    /\ Len(data) = LargeCorpus
    /\ Len(train_data) > Len(val_data)
    /\ Len(val_data) > 0

\* C6: the trainer starts in Training mode; every training step, its forward
\* pass included, runs in Training mode; after every eval_interval-th step,
\* and only then, the mode is switched to Evaluating, one validation forward
\* pass runs in Evaluating mode, and the mode is Training again when the next
\* step begins.
C6_TrainerModes ==
    /\ mode = "Training"
    /\ [](pc \in TrainStepPcs => mode = "Training")
    /\ [](pc = "backward" => y_hat.dropout)
    /\ [](pc \in {"val_batch", "val_forward"} => mode = "Evaluating")
    /\ [](pc = "model_train" => ~y_hat.dropout)
    /\ [](pc \in ValPcs => (step + 1) % 200 = 0)
    /\ [][pc = "eval_check" =>
            pc' = IF (step + 1) % 200 = 0 THEN "model_eval" ELSE "train_head"]_vars
    /\ [][mode' # mode => pc \in {"model_eval", "model_train"}]_vars

C6_Witness ==
    /\ pc = "train_forward"
    /\ step = 200
    /\ mode = "Training"
    /\ ~y_hat.dropout
    /\ y_hat.version = 200

\* C7: every model call of the generation loop runs with the model in
\* Evaluating mode, dropout disabled.
C7_GenerationEvaluating ==
    pc = "gen_sample" => (mode = "Evaluating" /\ ~y_hat.dropout)

\* C8: a call get_batch(split) on a split with len(split) <= block_size
\* raises and returns no batch.
C8_ShortSplitRaises ==
    (split # "none" /\ Len(SelectData(split)) <= block_size) =>
        /\ pc = "raised"
        /\ err # "none"
        /\ x = << >>
        /\ y = << >>

C8_Witness ==
    /\ split = "train"
    /\ Len(train_data) = block_size
    /\ pc = "raised"
    /\ err = "RuntimeError"

\* C9: the split never completes with a half of fewer than block_size + 1
\* ids: it fails at the time of splitting instead.
C9_InvalidSplitRaised ==
    ~ /\ pc = "train_head"
      /\ err = "none"
      /\ \/ Len(train_data) < block_size + 1
         \/ Len(val_data) < block_size + 1

\* C10: the parameters change only in optim.step(), by one update per
\* training step, each update using the gradients of exactly one backward
\* pass since the last reset; train_steps updates have been made when the
\* loop ends, and the validation pass and the generation leave them alone.
C10_ParameterUpdates ==
    /\ [][params' # params =>
            /\ pc = "optim_step"
            /\ params' = params + 1
            /\ grads = 1]_vars
    /\ [](pc = "train_head" => params = it /\ grads = 0)
    /\ [](pc \in ValPcs => params = it /\ y_hat.version <= params)
    /\ [](pc \in GenPcs => params = 1000)

C10_Witness ==
    /\ pc = "gen_cat"
    /\ params = 1000
    /\ y_hat.version = 1000
    /\ it = num_steps

===========================================================================
